---- MODULE Spec2Model ----
(***************************************************************************)
(* State-machine model of the data-centre viewer: the telemetry store      *)
(* (class ServerStatus, src/src/main.ts) and the hover / click handling of *)
(* class DataCenter (src/src/DataCenter.ts).                               *)
(*                                                                         *)
(* Metrics are JavaScript numbers.  Math.random() is modelled as a draw    *)
(* k / Scale with k an integer; every metric is stored multiplied by Scale *)
(* so that the arithmetic of the source is exact integer arithmetic here   *)
(* (the draws are dyadic rationals, on which the float operations of the   *)
(* source are exact as well).                                              *)
(***************************************************************************)
EXTENDS Integers, Sequences, FiniteSets

VARIABLES
  servers,          \* ServerStatus.servers: the Map, as its entries in insertion order
  ticks,            \* number of animation frames run so far
  stream,           \* the random stream the last frame (or the constructor) drew from
  selectedServer,   \* DataCenter.selectedServer (a scene node or Null)
  hoveredRack,      \* DataCenter.hoveredRack
  hoveredServer,    \* DataCenter.hoveredServer
  opacity,          \* rack index -> opacity of that rack case's material, in tenths
  wireframe,        \* server id -> material.wireframe of that server mesh
  heat,             \* server id -> numerator of the temperature uniform
  lightColor,       \* server id -> colour of the indicator light
  infoPanel,        \* what the #info element shows
  recursiveDefault, \* the default of Raycaster.intersectObjects' `recursive` parameter
  returned,         \* what the operation just performed handed back (<<>>: nothing)
  effects,          \* the material writes made by the last pointer handler, in order
  lastOp,           \* the last operation and the pointer target it resolved
  lastMove,         \* the target of the most recent pointer move
  ray               \* the hits of the last pointer ray (recorded by SpecPick only)

vars == <<servers, ticks, stream, selectedServer, hoveredRack, hoveredServer, opacity,
          wireframe, heat, lightColor, infoPanel, recursiveDefault, returned,
          effects, lastOp, lastMove, ray>>

----------------------------------------------------------------------------
(* Bounds of the model *)

\* Math.random() yields multiples of 1 / 2^RandBits
RandBits == 3
\* number of random streams an animation frame (or the constructor) may draw from;
\* a frame draws from the stream of the frame before it or from a later one
NumSeeds == 3
\* animation frames in the telemetry specification
MaxTicks == 14
\* animation frames in the interaction specification
MaxFrames == 2
\* pointer rays are aimed at the racks 0..MaxProbeRack ...
MaxProbeRack == 1
\* ... and in them at the slots 0..MaxProbeSlot
MaxProbeSlot == 0

(* Program constants *)

\* for (let rack = 0; rack < 9; rack++)
RackCount == 9
\* for (let server = 0; server < 5; server++)
ServerCount == 5

Scale == 2 ^ RandBits

----------------------------------------------------------------------------
(* Ids *)

Digits == <<"0", "1", "2", "3", "4", "5", "6", "7", "8", "9">>

\* String(n) for a natural number n below 100
ToString(n) ==
  IF n < 10 THEN Digits[n + 1] ELSE Digits[(n \div 10) + 1] \o Digits[(n % 10) + 1]

\* `rack${rack}-server${server}`
ServerId(rack, server) == "rack" \o ToString(rack) \o "-server" \o ToString(server)

----------------------------------------------------------------------------
(* Telemetry store: class ServerStatus *)

\* what Map.get returns for a missing key; falsy in `if (data)`
Undefined ==
  [id |-> "", temperature |-> 0, cpuUsage |-> 0, memoryUsage |-> 0, status |-> "undefined"]

Max(a, b) == IF a >= b THEN a ELSE b
Min(a, b) == IF a <= b THEN a ELSE b

\* the values Math.random() takes in the model: 0, 1/2 and the largest below 1
DrawValues == <<0, Scale \div 2, Scale - 1>>

\* the n-th Math.random() of a frame whose stream is `seed`, times Scale
Random(seed, n) == DrawValues[((seed + n + (n \div 3)) % 3) + 1]

\* the Map after a sequence of Map.prototype.set calls (each call's value carries its
\* key as `id`): the keys in the order of their first set, each with its last value
MapAfter(calls) ==
  LET first(k) == \A j \in 1..(k - 1) : calls[j].id # calls[k].id
      last(k) == \A j \in (k + 1)..Len(calls) : calls[j].id # calls[k].id
      firsts == {k \in 1..Len(calls) : first(k)}
      nth(i) == CHOOSE k \in firsts : Cardinality({j \in firsts : j <= k}) = i
      valueOf(id) == calls[CHOOSE k \in 1..Len(calls) : calls[k].id = id /\ last(k)]
  IN  [i \in 1..Cardinality(firsts) |-> valueOf(calls[nth(i)].id)]

\* Map.prototype.get
MapGet(m, id) ==
  LET at == {i \in 1..Len(m) : m[i].id = id}
  IN  IF at = {} THEN Undefined ELSE m[CHOOSE i \in at : TRUE]

\* the record initializeServers builds for one slot; n counts the records built before
NewServer(rack, server, seed, n) ==
  [id          |-> ServerId(rack, server),
   temperature |-> Random(seed, 3 * n) * 20 + 25 * Scale,
   cpuUsage    |-> Random(seed, 3 * n + 1) * 60 + 20 * Scale,
   memoryUsage |-> Random(seed, 3 * n + 2) * 50 + 30 * Scale,
   status      |-> "normal"]

\* initializeServers with an inner loop that runs one slot too far (server <= 5)
SetCallsInclusive(seed) ==
  [k \in 1..(RackCount * (ServerCount + 1)) |->
     NewServer((k - 1) \div (ServerCount + 1), (k - 1) % (ServerCount + 1), seed, k - 1)]

\* the this.servers.set calls of the two nested loops of initializeServers, in order:
\* the k-th call is for rack (k - 1) div 5, slot (k - 1) mod 5
SetCalls(seed) ==
  [k \in 1..(RackCount * ServerCount) |->
     NewServer((k - 1) \div ServerCount, (k - 1) % ServerCount, seed, k - 1)]

initializeServers(seed) == MapAfter(SetCalls(seed))

\* a clamp that forgets the lower bound: Math.min(hi, x)
ClampNoFloor(lo, hi, x) == Min(hi * Scale, x)

\* Math.max(lo, Math.min(hi, x)), bounds in whole units
Clamp(lo, hi, x) == Max(lo * Scale, Min(hi * Scale, x))

\* the status rule with inclusive thresholds (>= where the code has >)
StatusOfInclusive(temperature, cpuUsage, memoryUsage) ==
  IF temperature >= 42 * Scale \/ cpuUsage >= 90 * Scale \/ memoryUsage >= 90 * Scale
    THEN "error"
  ELSE IF temperature >= 38 * Scale \/ cpuUsage >= 75 * Scale \/ memoryUsage >= 75 * Scale
    THEN "warning"
  ELSE "normal"

\* the if / else-if / else of updateServerStatus
StatusOf(temperature, cpuUsage, memoryUsage) ==
  IF temperature > 42 * Scale \/ cpuUsage > 90 * Scale \/ memoryUsage > 90 * Scale
    THEN "error"
  ELSE IF temperature > 38 * Scale \/ cpuUsage > 75 * Scale \/ memoryUsage > 75 * Scale
    THEN "warning"
  ELSE "normal"

\* the metrics of one record before clamping: += (Math.random() - 0.5) * {2, 10, 5}
RawTemperature(server, seed, n) == server.temperature + (2 * Random(seed, 3 * n) - Scale)
RawCpuUsage(server, seed, n) == server.cpuUsage + (10 * Random(seed, 3 * n + 1) - 5 * Scale)
RawMemoryUsage(server, seed, n) ==
  server.memoryUsage + (5 * Random(seed, 3 * n + 2) - 5 * (Scale \div 2))

\* the body of the forEach of updateServerStatus, for the n-th record visited
UpdateOne(server, seed, n) ==
  LET t == Clamp(25, 45, RawTemperature(server, seed, n))
      c == Clamp(20, 95, RawCpuUsage(server, seed, n))
      u == Clamp(30, 95, RawMemoryUsage(server, seed, n))
  IN  [id |-> server.id, temperature |-> t, cpuUsage |-> c, memoryUsage |-> u,
       status |-> StatusOf(t, c, u)]

updateServerStatus(m, seed) == [i \in 1..Len(m) |-> UpdateOne(m[i], seed, i - 1)]

getServerData(id) == MapGet(servers, id)

getAllServers == servers

----------------------------------------------------------------------------
(* The scene graph built by the DataCenter constructor *)

Node(kind, rack, slot) == [kind |-> kind, rack |-> rack, slot |-> slot]

\* JavaScript null (an object reference that is not set)
Null == Node("null", -1, -1)

\* the DataCenter group itself, and the THREE.Scene it is added to
Root == Node("dataCenter", -1, -1)
SceneTop == Node("scene", -1, -1)

Racks == 0..(RackCount - 1)
\* const serverCount = 5 of createRack: the same 5 as in initializeServers
Slots == 0..(ServerCount - 1)

\* the kinds of mesh createRack puts into one server assembly
ServerPartKinds == {"server", "light", "panel", "textPlane", "vents"}

\* createFloor and createMainInfrastructure: 3 + 3 paths of 4 pipes each
\* (createRackConnections runs before createRacks and finds no rack)
Decor ==
  {Node("floor", -1, -1), Node("gridHelper", -1, -1), Node("base", -1, -1)}
    \cup {Node("pipe", -1, p) : p \in 0..23}

SceneNodes ==
  {Root} \cup Decor
    \cup {Node("rack", r, -1) : r \in Racks}
    \cup {Node("rackMesh", r, -1) : r \in Racks}
    \cup {Node("serverGroup", r, i) : r \in Racks, i \in Slots}
    \cup {Node(k, r, i) : k \in ServerPartKinds, r \in Racks, i \in Slots}

\* child instanceof THREE.Mesh (GridHelper is a LineSegments)
IsMesh(n) ==
  n.kind \in ServerPartKinds \cup {"rackMesh", "floor", "base", "pipe"}

\* parent instanceof THREE.Group
IsGroup(n) == n.kind \in {"dataCenter", "rack", "serverGroup"}

\* object.parent, as set by the add() calls of the constructor
Parent(n) ==
  CASE n.kind = "scene" -> Null
    [] n.kind = "null" -> Null
    [] n.kind = "dataCenter" -> SceneTop
    [] n.kind \in {"floor", "gridHelper", "base", "pipe", "rack"} -> Root
    [] n.kind \in {"rackMesh", "serverGroup"} -> Node("rack", n.rack, -1)
    [] n.kind \in {"server", "panel", "textPlane", "vents"} ->
         Node("serverGroup", n.rack, n.slot)
    [] n.kind = "light" -> Node("server", n.rack, n.slot)

\* userData.id: only the server mesh gets one (server.userData.id = serverId);
\* "" stands for undefined, which is falsy like the empty string
UserDataId(n) == IF n.kind = "server" THEN ServerId(n.rack, n.slot) ELSE ""

\* userData.isRackCase, truthy only on the rack's box mesh
IsRackCase(n) == n.kind = "rackMesh"

\* userData.rackIndex !== undefined: only the rack group has one
HasRackIndex(n) == n.kind = "rack"

\* serverBrands[i].name, the non-ASCII names transliterated
BrandNames == <<"DELL", "HP", "Sugon", "Inspur", "Huawei">>

\* server.userData.brand
UserDataBrand(n) == IF n.kind = "server" THEN BrandNames[n.slot + 1] ELSE ""

\* the server meshes createRack builds
ServerMeshes == {Node("server", r, i) : r \in Racks, i \in Slots}

\* DataCenter.servers: the entries createRack sets, id -> server mesh
DataCenterServers == {[id |-> UserDataId(n), mesh |-> n] : n \in ServerMeshes}

\* this.servers.get(id) of the DataCenter (Null when there is none)
MeshOf(id) ==
  LET found == {e \in DataCenterServers : e.id = id}
  IN  IF found = {} THEN Null ELSE (CHOOSE e \in found : TRUE).mesh

\* all server ids the scene holds
MeshIds == {e.id : e \in DataCenterServers}

RECURSIVE HasAncestorIn(_, _)
\* n lies below one of `objects` in the scene graph
HasAncestorIn(n, objects) ==
  Parent(n) # Null /\ (Parent(n) \in objects \/ HasAncestorIn(Parent(n), objects))

\* raycaster.intersectObjects(objects, recursive) for a ray whose hits on the
\* meshes of the scene are `hits`, nearest first: the hits on the objects tested,
\* which with `recursive` include the objects' descendants
intersectObjects(hits, objects, recursive) ==
  LET tested(n) == n \in objects \/ (recursive /\ HasAncestorIn(n, objects))
  IN  SelectSeq(hits, tested)

\* the traverse of handleMouseMove: meshes with userData.id or userData.isRackCase
InteractiveObjects ==
  {n \in SceneNodes : IsMesh(n) /\ (UserDataId(n) # "" \/ IsRackCase(n))}

\* the traverse of handleClick: meshes with userData.id
ClickableObjects == {n \in SceneNodes : IsMesh(n) /\ UserDataId(n) # ""}

RECURSIVE WalkUp(_, _)
\* the while loop of handleMouseMove: from `parent` upwards, with the target so far
WalkUp(parent, targetObject) ==
  IF parent = Null \/ (IsGroup(parent) /\ HasRackIndex(parent)) THEN targetObject
  ELSE IF IsMesh(parent) /\ UserDataId(parent) # "" THEN parent
  ELSE IF IsGroup(parent) /\ UserDataId(parent) # "" /\ MeshOf(UserDataId(parent)) # Null
    THEN MeshOf(UserDataId(parent))
  ELSE WalkUp(Parent(parent), targetObject)

\* targetObject of handleMouseMove for the nearest intersected object
TargetObject(intersectedObject) == WalkUp(Parent(intersectedObject), intersectedObject)

----------------------------------------------------------------------------
(* Pointer rays *)

ProbeRacks == 0..Min(MaxProbeRack, RackCount - 1)
ProbeSlots == 0..Min(MaxProbeSlot, ServerCount - 1)

\* the meshes the rays of the model may hit
ProbeMeshes ==
  {Node("floor", -1, -1)}
    \cup {Node("rackMesh", r, -1) : r \in ProbeRacks}
    \cup {Node(k, r, i) : k \in ServerPartKinds, r \in ProbeRacks, i \in ProbeSlots}

\* createRack's dimensions: the 0.8 x 2 x 0.8 rack box encloses the 0.75 wide server
\* bodies and the planes on their fronts (only the light, at z up to 0.415, sticks
\* out of the box's front at z = 0.4), and faces are hit from their front side only.
\* So a ray meets a rack's box before the enclosed parts of that rack, and a front
\* plane before the body it is mounted on.
Enclosed(n) == n.kind \in {"server", "panel", "textPlane", "vents"}
Before(a, b) ==
  /\ a # b
  /\ ~(IsRackCase(b) /\ Enclosed(a) /\ a.rack = b.rack)
  /\ ~(a.kind = "server" /\ b.kind \in {"panel", "textPlane", "vents"}
         /\ a.rack = b.rack /\ a.slot = b.slot)

\* what a ray hits, nearest first: nothing, one mesh, or a mesh and one behind it.
\* OrbitControls sets no distance limits, so the camera may stand inside a rack box,
\* where a ray meets the parts without the box; a ray that grazes the edge of a front
\* plane passes beside the body 0.001 behind it
RayHits ==
  {<<>>} \cup {<<a>> : a \in ProbeMeshes}
    \cup {<<a, b>> : a \in ProbeMeshes, b \in ProbeMeshes}

\* the rays of the model pass through one rack at most
FeasibleHits ==
  {h \in RayHits : Len(h) < 2 \/ (Before(h[1], h[2]) /\ h[1].rack = h[2].rack)}

----------------------------------------------------------------------------
(* Logical targets (the InteractionTarget of the specification) *)

NoTarget == [kind |-> "None", rack |-> -1, id |-> ""]
RackTarget(r) == [kind |-> "Rack", rack |-> r, id |-> ""]
ServerTarget(id) == [kind |-> "Server", rack |-> -1, id |-> id]

\* the branch handleMouseMove takes for the intersections it got
TargetOf(intersects) ==
  IF Len(intersects) = 0 THEN NoTarget
  ELSE LET targetObject == TargetObject(intersects[1])
       IN  IF IsRackCase(targetObject) THEN RackTarget(Parent(targetObject).rack)
           ELSE IF UserDataId(targetObject) # "" THEN ServerTarget(UserDataId(targetObject))
           ELSE NoTarget

\* the target handleMouseMove resolves for a ray
ResolveTarget(hits) == TargetOf(intersectObjects(hits, InteractiveObjects, TRUE))

----------------------------------------------------------------------------
(* The info panel *)

\* Number.prototype.toFixed(1): tenths, ties rounded up
ToFixed1(x) == (20 * x + Scale) \div (2 * Scale)

getTemperatureColor(temp) ==
  IF temp > 45 * Scale THEN "#ff4444" ELSE IF temp > 35 * Scale THEN "#ffaa00" ELSE "#44ff44"

getUsageColor(usage) ==
  IF usage > 90 * Scale THEN "#ff4444" ELSE IF usage > 70 * Scale THEN "#ffaa00" ELSE "#44ff44"

getStatusColor(status) ==
  CASE status = "error" -> "#ff4444"
    [] status = "warning" -> "#ffaa00"
    [] status = "normal" -> "#44ff44"
    [] OTHER -> "#ffffff"

\* server?.userData.brand || 'unknown brand'
BrandOf(id) == IF MeshOf(id) # Null THEN UserDataBrand(MeshOf(id)) ELSE "unknown"

\* one entry of the server list of showRackInfo
RackRow(data) ==
  [brand |-> BrandOf(data.id), id |-> data.id,
   temperature |-> ToFixed1(data.temperature), cpuUsage |-> ToFixed1(data.cpuUsage),
   statusColor |-> getStatusColor(data.status)]

RECURSIVE RackRows(_, _, _)
\* the for loop of showRackInfo from slot i on
RackRows(store, rackIndex, i) ==
  IF i >= 5 THEN <<>>
  ELSE LET data == MapGet(store, ServerId(rackIndex, i))
       IN  (IF data # Undefined THEN <<RackRow(data)>> ELSE <<>>)
             \o RackRows(store, rackIndex, i + 1)

\* the markup showRackInfo writes: the heading's number and the rows
showRackInfo(store, rackIndex) ==
  [view |-> "rack", heading |-> rackIndex + 1, rows |-> RackRows(store, rackIndex, 0)]

showDefaultInfo == [view |-> "default", heading |-> 0, rows |-> <<>>]

\* the markup showServerInfo writes
showServerInfo(data) ==
  [view |-> "server", heading |-> 0,
   rows |-> <<[brand |-> BrandOf(data.id), id |-> data.id,
               temperature |-> ToFixed1(data.temperature),
               temperatureColor |-> getTemperatureColor(data.temperature),
               cpuUsage |-> ToFixed1(data.cpuUsage),
               cpuColor |-> getUsageColor(data.cpuUsage),
               memoryUsage |-> ToFixed1(data.memoryUsage),
               memoryColor |-> getUsageColor(data.memoryUsage),
               status |-> data.status,
               statusColor |-> getStatusColor(data.status)]>>]

\* the #info element before any handler wrote to it (its markup is not the program's)
InitialInfo == [view |-> "initial", heading |-> 0, rows |-> <<>>]

----------------------------------------------------------------------------
(* Operations *)

\* a write to a material by a pointer handler: which emphasis change, on which mesh
Effect(what, mesh) == [effect |-> what, on |-> mesh]

\* rack.children.find(child => child.userData.isRackCase)
RackCaseOf(rack) == Node("rackMesh", rack.rack, -1)

\* serverId of handleClick (lines 405-409): userData.id of the nearest object the
\* click's own raycast returns, "" when it returns none or the object has no id
ClickedId(hits) ==
  IF Len(intersectObjects(hits, ClickableObjects, recursiveDefault)) > 0
    THEN UserDataId(intersectObjects(hits, ClickableObjects, recursiveDefault)[1])
    ELSE ""

\* the record of an operation: its name, the target the hover resolution gives for
\* its ray, for a pointer move whether the operation right before it was a pointer
\* move to the same target, and for a click whether its ray hit a server body and
\* the id its own raycast resolved
Op(name, hits) ==
  [op |-> name,
   target |-> ResolveTarget(hits),
   again |-> name = "mousemove" /\ lastOp.op = "mousemove"
               /\ lastOp.target = ResolveTarget(hits),
   bodyHit |-> name = "click" /\ \E i \in 1..Len(hits) : hits[i].kind = "server",
   clicked |-> IF name = "click" THEN ClickedId(hits) ELSE ""]
NoRay == <<>>

\* the state after new DataCenter(): the store initialised, nothing hovered or selected
Init ==
  /\ stream \in 0..(NumSeeds - 1)
  /\ servers = initializeServers(stream)
  /\ ticks = 0
  /\ selectedServer = Null
  /\ hoveredRack = Null
  /\ hoveredServer = Null
  /\ opacity = [r \in Racks |-> 10]
  /\ wireframe = [id \in MeshIds |-> FALSE]
  /\ heat = [id \in MeshIds |-> 0]
  /\ lightColor = [id \in MeshIds |-> "0x00ff00"]
  /\ infoPanel = InitialInfo
  /\ recursiveDefault \in BOOLEAN
  /\ returned = <<>>
  /\ effects = <<>>
  /\ lastOp = [op |-> "new", target |-> NoTarget, again |-> FALSE, bodyHit |-> FALSE,
              clicked |-> ""]
  /\ lastMove = NoTarget
  /\ ray = NoRay

\* the switch of update() on data.status
LightHex(status, old) ==
  CASE status = "normal" -> "0x00ff00"
    [] status = "warning" -> "0xffff00"
    [] status = "error" -> "0xff0000"
    [] OTHER -> old

\* DataCenter.update(), called by App.animate once per frame: the tick of the store,
\* then the temperature uniform (its numerator: (temperature - 20) / 30) and the
\* light colour of every server mesh
update(seed) ==
  LET known(id) == MapGet(servers', id) # Undefined
  IN  /\ servers' = updateServerStatus(servers, seed)
      /\ heat' = [id \in MeshIds |->
                    IF known(id) THEN MapGet(servers', id).temperature - 20 * Scale
                    ELSE heat[id]]
      /\ lightColor' = [id \in MeshIds |->
                    IF known(id) THEN LightHex(MapGet(servers', id).status, lightColor[id])
                    ELSE lightColor[id]]
      /\ ticks' = ticks + 1
      /\ stream' = seed
      /\ effects' = <<>>
      /\ lastOp' = Op("update", NoRay)
      /\ returned' = <<>>
      /\ UNCHANGED <<selectedServer, hoveredRack, hoveredServer, opacity, wireframe,
                     infoPanel, recursiveDefault, lastMove, ray>>

\* lines 332-341 of handleMouseMove: the rack case hovered so far gets its opacity
\* back, and the server hovered so far, unless it is the selected one, loses its outline
\* a reset that never gives a rack case its opacity back
LeaveOpacityNever == opacity
LeaveOpacity == IF hoveredRack # Null THEN [opacity EXCEPT ![hoveredRack.rack] = 10] ELSE opacity
\* a leave that does not spare the selected server
LeavesServerAlways == hoveredServer # Null
LeavesServer == hoveredServer # Null /\ hoveredServer # selectedServer
LeaveWireframe ==
  IF LeavesServer THEN [wireframe EXCEPT ![UserDataId(hoveredServer)] = FALSE] ELSE wireframe
LeaveEffects ==
  (IF hoveredRack # Null THEN <<Effect("leave", RackCaseOf(hoveredRack))>> ELSE <<>>)
    \o (IF LeavesServer THEN <<Effect("leave", hoveredServer)>> ELSE <<>>)

\* lines 374-378: the target is a rack case
HoverRack(targetObject, rack) ==
  /\ hoveredRack' = rack
  /\ opacity' = [LeaveOpacity EXCEPT ![targetObject.rack] = 7]
  /\ wireframe' = LeaveWireframe
  /\ effects' = Append(LeaveEffects, Effect("enter", targetObject))
  /\ infoPanel' = showRackInfo(servers, rack.rack)
  /\ UNCHANGED hoveredServer

\* lines 379-389: the target is a server mesh
HoverServer(targetObject, id, serverData) ==
  /\ hoveredServer' = targetObject
  /\ wireframe' =
       IF targetObject # selectedServer THEN [LeaveWireframe EXCEPT ![id] = TRUE]
       ELSE LeaveWireframe
  /\ effects' =
       IF targetObject # selectedServer
         THEN Append(LeaveEffects, Effect("enter", targetObject))
         ELSE LeaveEffects
  /\ infoPanel' = IF serverData # Undefined THEN showServerInfo(serverData) ELSE infoPanel
  /\ opacity' = LeaveOpacity
  /\ UNCHANGED hoveredRack

\* lines 354-389: something was intersected; targetObject is what the walk found
HoverTarget(targetObject) ==
  IF IsRackCase(targetObject) THEN HoverRack(targetObject, Parent(targetObject))
  ELSE IF UserDataId(targetObject) # ""
    THEN HoverServer(targetObject, UserDataId(targetObject),
                     getServerData(UserDataId(targetObject)))
  ELSE /\ opacity' = LeaveOpacity
       /\ wireframe' = LeaveWireframe
       /\ effects' = LeaveEffects
       /\ UNCHANGED <<hoveredRack, hoveredServer, infoPanel>>

\* lines 390-394: nothing was intersected
HoverNothing ==
  /\ hoveredRack' = Null
  /\ hoveredServer' = Null
  /\ opacity' = LeaveOpacity
  /\ wireframe' = LeaveWireframe
  /\ effects' = LeaveEffects
  /\ infoPanel' = showDefaultInfo

\* lines 352-394 for the intersections found
Hover(intersects) ==
  IF Len(intersects) > 0 THEN HoverTarget(TargetObject(intersects[1])) ELSE HoverNothing

\* DataCenter.handleMouseMove for a ray with the hits `hits`
handleMouseMove(hits) ==
  /\ ticks >= 1
  /\ Hover(intersectObjects(hits, InteractiveObjects, TRUE))
  /\ lastOp' = Op("mousemove", hits)
  /\ lastMove' = ResolveTarget(hits)
  /\ returned' = <<>>
  /\ UNCHANGED <<servers, ticks, stream, selectedServer, heat, lightColor,
                 recursiveDefault>>

\* a selection that forgets the outline of the server selected before
SelectKeepsOld(clickedObject, serverId, serverData) ==
  /\ selectedServer' = clickedObject
  /\ wireframe' = [wireframe EXCEPT ![serverId] = TRUE]
  /\ effects' =
       (IF selectedServer # Null THEN <<Effect("deselect", selectedServer)>> ELSE <<>>)
         \o <<Effect("select", clickedObject)>>
  /\ infoPanel' = showServerInfo(serverData)

\* lines 413-423 of handleClick: the clicked server becomes the selected one
Select(clickedObject, serverId, serverData) ==
  /\ selectedServer' = clickedObject
  /\ wireframe' =
       [(IF selectedServer # Null
           THEN [wireframe EXCEPT ![UserDataId(selectedServer)] = FALSE]
           ELSE wireframe) EXCEPT ![serverId] = TRUE]
  /\ effects' =
       (IF selectedServer # Null THEN <<Effect("deselect", selectedServer)>> ELSE <<>>)
         \o <<Effect("select", clickedObject)>>
  /\ infoPanel' = showServerInfo(serverData)

\* a click handler that drops the selection when the clicked object is no server
ClickObjectOrClear(clickedObject, serverId, serverData) ==
  IF serverId # "" /\ serverData # Undefined
    THEN Select(clickedObject, serverId, serverData)
    ELSE /\ selectedServer' = Null
         /\ wireframe' =
              IF selectedServer # Null
                THEN [wireframe EXCEPT ![UserDataId(selectedServer)] = FALSE]
                ELSE wireframe
         /\ effects' =
              IF selectedServer # Null THEN <<Effect("deselect", selectedServer)>> ELSE <<>>
         /\ UNCHANGED infoPanel

\* lines 409-425: the nearest intersected object was clicked
ClickObject(clickedObject, serverId, serverData) ==
  IF serverId # "" /\ serverData # Undefined
    THEN Select(clickedObject, serverId, serverData)
    ELSE effects' = <<>> /\ UNCHANGED <<selectedServer, wireframe, infoPanel>>

\* a click handler that clears the selection when the click hits nothing
ClickOrClear(intersects) ==
  IF Len(intersects) > 0
    THEN ClickObject(intersects[1], UserDataId(intersects[1]),
                     getServerData(UserDataId(intersects[1])))
    ELSE /\ selectedServer' = Null
         /\ wireframe' =
              IF selectedServer # Null
                THEN [wireframe EXCEPT ![UserDataId(selectedServer)] = FALSE]
                ELSE wireframe
         /\ effects' =
              IF selectedServer # Null THEN <<Effect("deselect", selectedServer)>> ELSE <<>>
         /\ infoPanel' = showDefaultInfo

\* lines 405-426 for the intersections found
Click(intersects) ==
  IF Len(intersects) > 0
    THEN ClickObject(intersects[1], UserDataId(intersects[1]),
                     getServerData(UserDataId(intersects[1])))
    ELSE effects' = <<>> /\ UNCHANGED <<selectedServer, wireframe, infoPanel>>

\* DataCenter.handleClick for a ray with the hits `hits`; the call leaves
\* intersectObjects' `recursive` to the library's default
handleClick(hits) ==
  /\ ticks >= 1
  /\ Click(intersectObjects(hits, ClickableObjects, recursiveDefault))
  /\ lastOp' = Op("click", hits)
  /\ returned' = <<>>
  /\ UNCHANGED <<servers, ticks, stream, hoveredRack, hoveredServer, opacity, heat,
                 lightColor, recursiveDefault, lastMove>>

\* the ids the store is asked for: two it holds, one past the last rack, a stale one
LookupIds == {ServerId(0, 0), ServerId(8, 4), ServerId(9, 0), "stale"}

\* a lookup that creates a default record for an id the store does not hold
GetOrCreate(id) ==
  /\ returned' = <<getServerData(id)>>
  /\ servers' =
       IF getServerData(id) = Undefined
         THEN Append(servers, [Undefined EXCEPT !.id = id, !.status = "normal"])
         ELSE servers
  /\ effects' = <<>>
  /\ lastOp' = Op("getServerData", NoRay)
  /\ UNCHANGED <<ticks, stream, selectedServer, hoveredRack, hoveredServer,
                 opacity, wireframe, heat, lightColor, infoPanel, recursiveDefault, lastMove, ray>>

\* a caller's ServerStatus.getServerData(id)
GetServerData(id) ==
  /\ returned' = <<getServerData(id)>>
  /\ effects' = <<>>
  /\ lastOp' = Op("getServerData", NoRay)
  /\ UNCHANGED <<servers, ticks, stream, selectedServer, hoveredRack, hoveredServer,
                 opacity, wireframe, heat, lightColor, infoPanel, recursiveDefault, lastMove, ray>>

\* a caller's ServerStatus.getAllServers()
GetAllServers ==
  /\ returned' = getAllServers
  /\ effects' = <<>>
  /\ lastOp' = Op("getAllServers", NoRay)
  /\ UNCHANGED <<servers, ticks, stream, selectedServer, hoveredRack, hoveredServer,
                 opacity, wireframe, heat, lightColor, infoPanel, recursiveDefault, lastMove, ray>>

----------------------------------------------------------------------------
(* Specifications *)

\* App.animate: one frame
Animate == \E seed \in stream..(NumSeeds - 1) : update(seed)

\* App.onMouseMove
OnMouseMove == \E hits \in FeasibleHits : handleMouseMove(hits) /\ UNCHANGED ray

\* App.onClick
OnClick == \E hits \in FeasibleHits : handleClick(hits) /\ UNCHANGED ray

Lookup == \E id \in LookupIds : GetServerData(id)

\* the viewer: frames, pointer events and reads of the store
Next ==
  \/ (ticks < MaxFrames /\ Animate)
  \/ OnMouseMove
  \/ OnClick
  \/ Lookup
  \/ GetAllServers

\* the viewer draws from the last random stream
InitViewer == Init /\ stream = NumSeeds - 1

Spec == InitViewer /\ [][Next]_vars

\* the telemetry store on its own, over many frames
NextTelemetry ==
  \/ (ticks < MaxTicks /\ Animate)
  \/ Lookup

SpecTelemetry == Init /\ [][NextTelemetry]_vars

\* a pointer move whose ray is recorded
Aim == \E hits \in FeasibleHits : handleMouseMove(hits) /\ ray' = hits

\* the pick resolution on its own: frames and pointer moves, the rays recorded
NextPick ==
  \/ (ticks < MaxFrames /\ Animate)
  \/ Aim

SpecPick == InitViewer /\ [][NextPick]_vars

----------------------------------------------------------------------------
(* Properties of the telemetry store *)

\* the records of the store, as a set
Records == {servers[i] : i \in 1..Len(servers)}

\* C1: in every state of the store, whatever the random draws were, every record has
\* 25 <= temperature <= 45, 20 <= cpuUsage <= 95 and 30 <= memoryUsage <= 95
C1_MetricsWithinBounds ==
  \A s \in Records :
    /\ 25 * Scale <= s.temperature /\ s.temperature <= 45 * Scale
    /\ 20 * Scale <= s.cpuUsage /\ s.cpuUsage <= 95 * Scale
    /\ 30 * Scale <= s.memoryUsage /\ s.memoryUsage <= 95 * Scale

\* ticks have run and every one of the six bounds is met by some record
C1_Witness ==
  /\ ticks >= 1
  /\ \E s \in Records : s.temperature = 25 * Scale
  /\ \E s \in Records : s.temperature = 45 * Scale
  /\ \E s \in Records : s.cpuUsage = 20 * Scale
  /\ \E s \in Records : s.cpuUsage = 95 * Scale
  /\ \E s \in Records : s.memoryUsage = 30 * Scale
  /\ \E s \in Records : s.memoryUsage = 95 * Scale

\* the status the thresholds give to a record's metrics: Error above 42 / 90 / 90,
\* otherwise Warning above 38 / 75 / 75, otherwise Normal
AboveError(s) ==
  s.temperature > 42 * Scale \/ s.cpuUsage > 90 * Scale \/ s.memoryUsage > 90 * Scale
AboveWarning(s) ==
  s.temperature > 38 * Scale \/ s.cpuUsage > 75 * Scale \/ s.memoryUsage > 75 * Scale
Consistent(s) ==
  /\ s.status \in {"normal", "warning", "error"}
  /\ s.status = "error" <=> AboveError(s)
  /\ s.status = "warning" <=> (~AboveError(s) /\ AboveWarning(s))

\* C2: in every state of the store, the state right after initialize() included,
\* every record's status is the one the thresholds give to its metrics
C2_StatusAlwaysConsistent == \A s \in Records : Consistent(s)

\* C10: after a tick, every record's status is the one the strict thresholds give
\* to that record's own clamped metrics
C10_StatusAfterTick == ticks >= 1 => \A s \in Records : Consistent(s)

\* ticks have run; records of all three statuses exist, one is a Warning with a
\* metric exactly on an error threshold, one is Normal with a metric exactly on a
\* warning threshold
C10_Witness ==
  /\ ticks >= 1
  /\ \E s \in Records : s.status = "error"
  /\ \E s \in Records :
       /\ s.status = "warning"
       /\ (s.temperature = 42 * Scale \/ s.cpuUsage = 90 * Scale
             \/ s.memoryUsage = 90 * Scale)
  /\ \E s \in Records :
       /\ s.status = "normal"
       /\ (s.temperature = 38 * Scale \/ s.cpuUsage = 75 * Scale
             \/ s.memoryUsage = 75 * Scale)

----------------------------------------------------------------------------
(* Properties of the population of the store *)

\* the id the specification gives to slot s of rack r
ExpectedId(r, s) == "rack" \o Digits[r + 1] \o "-server" \o Digits[s + 1]

C9_SingleWriter ==
  [][/\ lastOp'.op # "update" => servers' = servers
     /\ lastOp'.op = "getServerData" =>
          /\ Len(returned') = 1
          /\ returned'[1] \in Records \cup {Undefined}]_vars

\* after a frame and a click that selected a server, a lookup of an id the store
\* does not hold returned not-found
C9_Witness ==
  /\ ticks >= 1
  /\ selectedServer # Null
  /\ lastOp.op = "getServerData"
  /\ returned = <<Undefined>>

----------------------------------------------------------------------------
(* Properties of the pointer handlers *)

\* the mesh whose material shows the emphasis of a target
TargetMesh(t) == IF t.kind = "Rack" THEN Node("rackMesh", t.rack, -1) ELSE MeshOf(t.id)

\* the writes among `effs` that go to `mesh`
EffectsOn(effs, mesh) == SelectSeq(effs, LAMBDA e : e.on = mesh)

\* the writes of one kind among `effs`
EffectsOfKind(effs, what) == SelectSeq(effs, LAMBDA e : e.effect = what)

C4_SelectionKept ==
  selectedServer' = selectedServer /\ wireframe'[UserDataId(selectedServer)]
C4_NoEnterOnSelected ==
  lastOp'.target = ServerTarget(UserDataId(selectedServer))
    => EffectsOfKind(effects', "enter") = <<>>
C4_EnterOnOtherOnly ==
  (lastOp'.target.kind = "Server" /\ lastOp'.target.id # UserDataId(selectedServer))
    => EffectsOfKind(effects', "enter") = <<Effect("enter", MeshOf(lastOp'.target.id))>>
C4_LeaveOfOtherOnly ==
  (/\ lastOp.op = "mousemove" /\ lastOp.target.kind = "Server"
   /\ lastOp.target.id # UserDataId(selectedServer)
   /\ lastOp'.target.kind = "None")
    => effects' = <<Effect("leave", MeshOf(lastOp.target.id))>>

\* C4: while a server s is selected, a pointer move keeps s selected and outlined;
\* onto s it fires no enter effect, onto another server s' it fires enter for s'
\* only, and a following move to no target fires leave for s' only
C4_SelectionPrecedence ==
  [][(lastOp'.op = "mousemove" /\ selectedServer # Null)
       => /\ C4_SelectionKept
          /\ C4_NoEnterOnSelected
          /\ C4_EnterOnOtherOnly
          /\ C4_LeaveOfOtherOnly]_vars

\* what a click may change: selection, outlines, opacity, hover state and info panel
ClickVisible ==
  <<selectedServer, wireframe, opacity, hoveredRack, hoveredServer, infoPanel>>

C6_HoverIsTarget ==
  /\ ~(hoveredRack # Null /\ hoveredServer # Null)
  /\ lastOp.op = "mousemove" =>
       /\ lastOp.target.kind = "Rack" =>
            (hoveredRack = Node("rack", lastOp.target.rack, -1) /\ hoveredServer = Null)
       /\ lastOp.target.kind = "Server" =>
            (hoveredServer = MeshOf(lastOp.target.id) /\ hoveredRack = Null)
       /\ lastOp.target.kind = "None" => (hoveredRack = Null /\ hoveredServer = Null)

\* C7: a ray whose nearest hit is a part of server S of rack R (body, status light,
\* front panel, brand label or vents) resolves to Server(rackR-serverS)
C7_PartsResolveToServer ==
  (lastOp.op = "mousemove" /\ Len(ray) > 0 /\ ray[1].kind \in ServerPartKinds)
    => lastOp.target = ServerTarget(ExpectedId(ray[1].rack, ray[1].slot))

\* what C11 asks of a click: the server with id `id` is the selected one and is
\* outlined, the server selected before, if another one, is outlined no more, and the
\* info panel shows the single-server view of `id`
SelectedBy(id) ==
  /\ selectedServer' = MeshOf(id)
  /\ wireframe'[id]
  /\ (selectedServer # Null /\ selectedServer # MeshOf(id))
       => ~wireframe'[UserDataId(selectedServer)]
  /\ infoPanel' = showServerInfo(getServerData(id))
  /\ effects' =
       (IF selectedServer # Null THEN <<Effect("deselect", selectedServer)>> ELSE <<>>)
         \o <<Effect("select", MeshOf(id))>>

C12_SelectionSticky ==
  [][selectedServer # Null
       => /\ selectedServer' \in ServerMeshes
          /\ selectedServer' # selectedServer
               => (lastOp'.op = "click" /\ selectedServer' = MeshOf(lastOp'.clicked))]_vars

\* a server was selected, the pointer then moved to no target, and a second frame
\* ran: the server is still selected and outlined
C12_Witness ==
  /\ selectedServer # Null
  /\ wireframe[UserDataId(selectedServer)]
  /\ lastMove = NoTarget
  /\ hoveredServer = Null /\ hoveredRack = Null
  /\ infoPanel = showDefaultInfo
  /\ ticks = 2
  /\ lastOp.op = "update"

\* C13: in every state a server is outlined only if it is the selected server or
\* the target of the most recent pointer move, and a rack case is dimmed (opacity
\* 0.7) only if that rack is the target of the most recent pointer move
C13_NoOrphanedEmphasis ==
  /\ \A id \in MeshIds :
       wireframe[id] => (selectedServer = MeshOf(id) \/ lastMove = ServerTarget(id))
  /\ \A r \in Racks : opacity[r] = 7 => lastMove = RackTarget(r)

\* after pointer moves, a click and two frames: a server is selected, another one is
\* outlined by the hover, and both outlines are on
C13_Witness ==
  /\ ticks = 2
  /\ selectedServer # Null
  /\ lastMove.kind = "Server"
  /\ MeshOf(lastMove.id) # selectedServer
  /\ wireframe[lastMove.id]
  /\ wireframe[UserDataId(selectedServer)]
  /\ \A r \in Racks : opacity[r] = 10

====
